---- MODULE Spec2Model ----
(***************************************************************************)
(* Model of the receipt text extraction engine of ExpenseTracker:          *)
(*   app/services/enhanced_parser.py  (class ReceiptParser)                *)
(*   app/services/ocr_service.py      (class OCRService)                   *)
(* and of the /scan-receipt handler of app/main.py.                        *)
(*                                                                         *)
(* A text is a sequence of characters.  An ASCII character is the string   *)
(* holding it; a Thai character is written "U0Exx" after its code point.   *)
(* The regular expressions of the source are run by a backtracking matcher *)
(* (leftmost match, greedy repetition, alternatives in order), the same    *)
(* search order as Python's re module.  A float is kept as its decimal     *)
(* digits (ip "." fp, no leading or trailing zeros), so float() of two     *)
(* spellings of one number are equal and no rounding is modelled.          *)
(*                                                                         *)
(* ReceiptParser._extract_sender and _extract_recipient are not modelled:  *)
(* they read only the text and write only from_account / to_account.       *)
(***************************************************************************)
EXTENDS Integers, Sequences, FiniteSets, TLC

VARIABLES
    dets,       \* the detections (text, confidence) the OCR reader returns
    parsed,     \* the record of receipt_parser.parse_receipt
    ocr,        \* the record of ocr_service._parse_receipt_text
    norm,       \* a text going through the normalizer of _extract_amount
    image,      \* the image file handed to ocr_service.process_receipt
    receipt,    \* the record ocr_service.process_receipt returns
    scan        \* the /scan-receipt handler: position, temp file, response

vars == <<dets, parsed, ocr, norm, image, receipt, scan>>

(***************************************************************************)
(* Characters                                                              *)
(***************************************************************************)
DigitChars == <<"0","1","2","3","4","5","6","7","8","9">>

Digits == {DigitChars[i] : i \in 1..10}

UpperChars == <<"A","B","C","D","E","F","G","H","I","J","K","L","M",
                "N","O","P","Q","R","S","T","U","V","W","X","Y","Z">>

LowerChars == <<"a","b","c","d","e","f","g","h","i","j","k","l","m",
                "n","o","p","q","r","s","t","u","v","w","x","y","z">>

LowerMap == [c \in {UpperChars[i] : i \in 1..26} |->
               LowerChars[CHOOSE i \in 1..26 : UpperChars[i] = c]]

\* Thai combining marks (category Mn) used by the texts: not \w characters.
ThaiMarks == {"U0E34","U0E35","U0E38","U0E47","U0E48","U0E4C"}

\* Thai letters (category Lo) all start with "U0E" and are \w characters;
\* the currency sign U0E3F (category Sc) is not.
NonWordChars == ThaiMarks \cup {"U0E3F", " ", ":", ".", ",", "/", "-", "|", "\n"}

\* \w of a Python str pattern: alphanumerics and "_".
IsWordChar(c) == c \notin NonWordChars

\* \s
IsSpace(c) == c \in {" ", "\n"}

\* str.lower() of one character
LowerChar(c) == IF c \in DOMAIN LowerMap THEN LowerMap[c] ELSE c

\* str.lower()
Lower(s) == [i \in 1..Len(s) |-> LowerChar(s[i])]

\* k in s  (substring test)
Contains(s, k) ==
    \E i \in 1..(Len(s) - Len(k) + 1) : \A j \in 1..Len(k) : s[i + j - 1] = k[j]

\* s.replace(c, r) for a single character c and a replacement text r
RECURSIVE Replace(_, _, _)
Replace(s, c, r) ==
    IF s = <<>> THEN <<>>
    ELSE (IF Head(s) = c THEN r ELSE <<Head(s)>>) \o Replace(Tail(s), c, r)

\* sep.join(list)
RECURSIVE Join(_, _)
Join(list, sep) ==
    IF list = <<>> THEN <<>>
    ELSE IF Len(list) = 1 THEN list[1]
    ELSE list[1] \o sep \o Join(Tail(list), sep)

(***************************************************************************)
(* Regular expressions.  A pattern is a sequence of items:                 *)
(*   [t |-> "lit", s, ic]      the text s (ic: under re.IGNORECASE)       *)
(*   [t |-> "rep", cls, lo, hi] greedy repetition of a character class,    *)
(*                              hi = -1 for no upper limit                *)
(*   [t |-> "alt", alts]       (?:a|b|...) of texts, tried in order       *)
(*   [t |-> "wb"]              \b                                         *)
(*   [t |-> "open"], [t |-> "close"]   the parentheses of a group         *)
(***************************************************************************)
InClass(c, cls) ==
    CASE cls = "digit"    -> c \in Digits
      [] cls = "nondigit" -> c \notin Digits
      [] cls = "digit19"  -> c \in Digits \ {"0"}
      [] cls = "digcomma" -> c \in Digits \cup {","}
      [] cls = "space"    -> IsSpace(c)
      [] cls = "colon"    -> c = ":"
      [] cls = "dot"      -> c = "."
      [] cls = "commadot" -> c \in {",", "."}
      [] cls = "slashdash" -> c \in {"/", "-"}

Lit(s) == [t |-> "lit", s |-> s, ic |-> FALSE]

LitI(s) == [t |-> "lit", s |-> s, ic |-> TRUE]

Rep(cls, lo, hi) == [t |-> "rep", cls |-> cls, lo |-> lo, hi |-> hi]

Alt(alts) == [t |-> "alt", alts |-> alts]

WordB == [t |-> "wb"]

Open == [t |-> "open"]

Close == [t |-> "close"]

NoMatch == [ok |-> FALSE]

\* the text k stands at position pos of s
LitAt(k, s, pos, ic) ==
    /\ pos + Len(k) - 1 <= Len(s)
    /\ \A j \in 1..Len(k) :
          IF ic THEN LowerChar(s[pos + j - 1]) = LowerChar(k[j])
                ELSE s[pos + j - 1] = k[j]

\* \b at position pos: exactly one of the characters around it is a \w
AtWordBoundary(s, pos) ==
    LET before == pos > 1 /\ IsWordChar(s[pos - 1])
        after  == pos <= Len(s) /\ IsWordChar(s[pos])
    IN  before # after

\* the longest run of class characters from pos, at most hi of them
RECURSIVE MaxRun(_, _, _, _)
MaxRun(cls, s, pos, hi) ==
    IF hi = 0 \/ pos > Len(s) \/ ~InClass(s[pos], cls) THEN 0
    ELSE 1 + MaxRun(cls, s, pos + 1, IF hi < 0 THEN hi ELSE hi - 1)

\* Match items k.. of pattern p at position pos; caps are the positions of
\* the group parentheses passed so far.  The first success in backtracking
\* order, or NoMatch.
RECURSIVE MatchAt(_, _, _, _, _), MatchRep(_, _, _, _, _, _), MatchAlt(_, _, _, _, _, _)
MatchAt(p, k, s, pos, caps) ==
    IF k > Len(p) THEN [ok |-> TRUE, start |-> 0, end |-> pos, caps |-> caps]
    ELSE LET it == p[k] IN
      CASE it.t = "lit" ->
             IF LitAt(it.s, s, pos, it.ic)
             THEN MatchAt(p, k + 1, s, pos + Len(it.s), caps) ELSE NoMatch
        [] it.t = "rep" ->
             MatchRep(p, k, s, pos, caps, MaxRun(it.cls, s, pos, it.hi))
        [] it.t = "alt" -> MatchAlt(p, k, s, pos, caps, 1)
        [] it.t = "wb" ->
             IF AtWordBoundary(s, pos)
             THEN MatchAt(p, k + 1, s, pos, caps) ELSE NoMatch
        [] it.t \in {"open", "close"} ->
             MatchAt(p, k + 1, s, pos, Append(caps, pos))

MatchRep(p, k, s, pos, caps, n) ==
    IF n < p[k].lo THEN NoMatch
    ELSE LET r == MatchAt(p, k + 1, s, pos + n, caps)
         IN  IF r.ok THEN r ELSE MatchRep(p, k, s, pos, caps, n - 1)

MatchAlt(p, k, s, pos, caps, a) ==
    IF a > Len(p[k].alts) THEN NoMatch
    ELSE LET r == IF LitAt(p[k].alts[a], s, pos, FALSE)
                  THEN MatchAt(p, k + 1, s, pos + Len(p[k].alts[a]), caps)
                  ELSE NoMatch
         IN  IF r.ok THEN r ELSE MatchAlt(p, k, s, pos, caps, a + 1)

\* re.search(p, s) from position from: the leftmost match, or NoMatch
RECURSIVE Search(_, _, _)
Search(p, s, from) ==
    IF from > Len(s) + 1 THEN NoMatch
    ELSE LET r == MatchAt(p, 1, s, from, <<>>)
         IN  IF r.ok THEN [r EXCEPT !.start = from] ELSE Search(p, s, from + 1)

\* match.group(g)
Group(s, m, g) == SubSeq(s, m.caps[2 * g - 1], m.caps[2 * g] - 1)

\* re.findall(p, s) of a pattern with one group: group 1 of the successive
\* non-overlapping matches, in text order
RECURSIVE FindAll(_, _, _)
FindAll(p, s, from) ==
    LET m == Search(p, s, from)
    IN  IF ~m.ok THEN <<>>
        ELSE <<Group(s, m, 1)>>
             \o FindAll(p, s, IF m.end > m.start THEN m.end ELSE m.end + 1)

(***************************************************************************)
(* Numbers                                                                 *)
(***************************************************************************)
\* Python's None, and a raised ValueError
None == [none |-> TRUE]

ValueError == [error |-> "ValueError"]

\* a str value of an Optional[str] field
Str(s) == [str |-> s]

DigitVal(c) == (CHOOSE i \in 1..10 : DigitChars[i] = c) - 1

RECURSIVE StripLeadingZeros(_)
StripLeadingZeros(ds) ==
    IF ds # <<>> /\ Head(ds) = "0" THEN StripLeadingZeros(Tail(ds)) ELSE ds

RECURSIVE StripTrailingZeros(_)
StripTrailingZeros(ds) ==
    IF ds # <<>> /\ ds[Len(ds)] = "0"
    THEN StripTrailingZeros(SubSeq(ds, 1, Len(ds) - 1)) ELSE ds

\* the float with integer digits ip and fraction digits fp
Dec(ip, fp) == [ip |-> StripLeadingZeros(ip), fp |-> StripTrailingZeros(fp)]

Zero == Dec(<<>>, <<>>)

\* float(str) of a text of digits with at most one "."; a text with no
\* digit raises ValueError
ToFloat(str) ==
    LET dots == {i \in 1..Len(str) : str[i] = "."}
        d    == IF dots = {} THEN Len(str) + 1 ELSE CHOOSE i \in dots : TRUE
        ip   == SubSeq(str, 1, d - 1)
        fp   == SubSeq(str, d + 1, Len(str))
    IN  IF Cardinality(dots) > 1 \/ (ip = <<>> /\ fp = <<>>)
           \/ \E i \in 1..Len(str) : str[i] \notin Digits \cup {"."}
        THEN ValueError
        ELSE Dec(ip, fp)

\* a < b on digit texts of equal length
RECURSIVE LexLess(_, _)
LexLess(a, b) ==
    IF a = <<>> \/ b = <<>> THEN a = <<>> /\ b # <<>>
    ELSE IF Head(a) # Head(b) THEN DigitVal(Head(a)) < DigitVal(Head(b))
    ELSE LexLess(Tail(a), Tail(b))

\* a < b on floats
FloatLess(a, b) ==
    IF Len(a.ip) # Len(b.ip) THEN Len(a.ip) < Len(b.ip)
    ELSE IF a.ip # b.ip THEN LexLess(a.ip, b.ip)
    ELSE LexLess(a.fp, b.fp)

FloatLeq(a, b) == a = b \/ FloatLess(a, b)

Zeros(n) == [i \in 1..n |-> "0"]

\* digit-by-digit sum of two digit texts of equal length, one digit longer
RECURSIVE AddFrom(_, _, _, _)
AddFrom(x, y, i, carry) ==
    IF i = 0 THEN <<DigitChars[carry + 1]>>
    ELSE LET sum == DigitVal(x[i]) + DigitVal(y[i]) + carry
         IN  Append(AddFrom(x, y, i - 1, sum \div 10), DigitChars[(sum % 10) + 1])

\* a + b on floats
FloatAdd(a, b) ==
    LET nf == IF Len(a.fp) > Len(b.fp) THEN Len(a.fp) ELSE Len(b.fp)
        ni == IF Len(a.ip) > Len(b.ip) THEN Len(a.ip) ELSE Len(b.ip)
        x  == Zeros(ni - Len(a.ip)) \o a.ip \o a.fp \o Zeros(nf - Len(a.fp))
        y  == Zeros(ni - Len(b.ip)) \o b.ip \o b.fp \o Zeros(nf - Len(b.fp))
        z  == AddFrom(x, y, ni + nf, 0)
    IN  Dec(SubSeq(z, 1, ni + 1), SubSeq(z, ni + 2, ni + nf + 1))

\* bool(x) of an Optional[float]
Truthy(x) == x # None /\ x # Zero

\* int(str) of a text of digits
RECURSIVE DigitsToInt(_)
DigitsToInt(ds) ==
    IF ds = <<>> THEN 0
    ELSE 10 * DigitsToInt(SubSeq(ds, 1, Len(ds) - 1)) + DigitVal(ds[Len(ds)])

\* int(str) succeeds
CanInt(str) == str # <<>> /\ \A i \in 1..Len(str) : str[i] \in Digits

\* str(n) of a natural number
RECURSIVE IntToStr(_)
IntToStr(n) ==
    IF n < 10 THEN <<DigitChars[n + 1]>>
    ELSE Append(IntToStr(n \div 10), DigitChars[(n % 10) + 1])

\* str.zfill(width)
ZFill(s, width) == IF Len(s) >= width THEN s ELSE Zeros(width - Len(s)) \o s

(***************************************************************************)
(* Texts of the patterns and catalogs                                      *)
(***************************************************************************)
\* 'จำนวน'
T_jamnuan == <<"U0E08","U0E33","U0E19","U0E27","U0E19">>

\* 'บาท'
T_baht == <<"U0E1A","U0E32","U0E17">>

\* 'ยอด'
T_yot == <<"U0E22","U0E2D","U0E14">>

\* 'Amount'
T_Amount == <<"A","m","o","u","n","t">>

\* 'Total'
T_Total == <<"T","o","t","a","l">>

\* 'รวม'
T_ruam == <<"U0E23","U0E27","U0E21">>

\* 'โอน'
T_oon == <<"U0E42","U0E2D","U0E19">>

\* 'THB'
T_THB == <<"T","H","B">>

\* '฿'
T_bahtsign == <<"U0E3F">>

\* 'ค่าธรรมเนียม'
T_kathamniam == <<"U0E04","U0E48","U0E32","U0E18","U0E23","U0E23","U0E21","U0E40","U0E19","U0E35","U0E22","U0E21">>

\* 'fee'
T_fee == <<"f","e","e">>

\* 'ธรรมเนียม'
T_thamniam == <<"U0E18","U0E23","U0E23","U0E21","U0E40","U0E19","U0E35","U0E22","U0E21">>

\* 'เลขที่'
T_lekthi == <<"U0E40","U0E25","U0E02","U0E17","U0E35","U0E48">>

\* 'รายการ'
T_raikan == <<"U0E23","U0E32","U0E22","U0E01","U0E32","U0E23">>

\* 'reference'
T_reference == <<"r","e","f","e","r","e","n","c","e">>

\* 'ref'
T_ref == <<"r","e","f">>

\* ReceiptParser.TRANSACTION_TYPES, in the order of the dict literal
TRANSACTION_TYPES == <<
    [code |-> "topup", keywords |-> <<
        <<"U0E40","U0E15","U0E34","U0E21","U0E40","U0E07","U0E34","U0E19">>,
        <<"U0E40","U0E15","U0E34","U0E21"," ","U0E40","U0E07","U0E34","U0E19">>,
        <<"t","o","p"," ","u","p">>,
        <<"t","o","p","u","p">>>>],
    [code |-> "payment", keywords |-> <<
        <<"U0E0A","U0E33","U0E23","U0E30","U0E40","U0E07","U0E34","U0E19">>,
        <<"U0E0A","U0E33","U0E23","U0E30"," ","U0E40","U0E07","U0E34","U0E19">>,
        <<"p","a","y","m","e","n","t">>,
        <<"U0E08","U0E48","U0E32","U0E22","U0E40","U0E07","U0E34","U0E19">>>>],
    [code |-> "bill_payment", keywords |-> <<
        <<"U0E08","U0E48","U0E32","U0E22","U0E1A","U0E34","U0E25">>,
        <<"U0E08","U0E48","U0E32","U0E22"," ","U0E1A","U0E34","U0E25">>,
        <<"p","a","y"," ","b","i","l","l">>,
        <<"b","i","l","l"," ","p","a","y","m","e","n","t">>,
        <<"U0E0A","U0E33","U0E23","U0E30","U0E04","U0E48","U0E32">>>>],
    [code |-> "transfer", keywords |-> <<
        <<"U0E42","U0E2D","U0E19","U0E40","U0E07","U0E34","U0E19">>,
        <<"U0E42","U0E2D","U0E19"," ","U0E40","U0E07","U0E34","U0E19">>,
        <<"t","r","a","n","s","f","e","r">>,
        <<"U0E42","U0E2D","U0E19","U0E40","U0E07","U0E34","U0E19","U0E2A","U0E33","U0E40","U0E23","U0E47","U0E08">>>>]>>

\* banks of ReceiptParser._detect_bank
banks == <<
    [code |-> "kbank", keywords |-> <<
        <<"U0E01","U0E2A","U0E34","U0E01","U0E23">>,
        <<"k","b","a","n","k">>,
        <<"k","a","s","i","k","o","r","n">>>>],
    [code |-> "ktb", keywords |-> <<
        <<"U0E01","U0E23","U0E38","U0E07","U0E44","U0E17","U0E22">>,
        <<"k","t","b">>,
        <<"k","r","u","n","g","t","h","a","i">>>>],
    [code |-> "scb", keywords |-> <<
        <<"U0E44","U0E17","U0E22","U0E1E","U0E32","U0E13","U0E34","U0E0A","U0E22","U0E4C">>,
        <<"s","c","b">>>>],
    [code |-> "bbl", keywords |-> <<
        <<"U0E01","U0E23","U0E38","U0E07","U0E40","U0E17","U0E1E">>,
        <<"b","b","l">>>>],
    [code |-> "bay", keywords |-> <<
        <<"U0E01","U0E23","U0E38","U0E07","U0E28","U0E23","U0E35">>,
        <<"b","a","y">>>>],
    [code |-> "ttb", keywords |-> <<
        <<"U0E17","U0E2B","U0E32","U0E23","U0E44","U0E17","U0E22">>,
        <<"t","t","b">>>>]>>

\* banks of OCRService._detect_bank
ocr_banks == <<
    [code |-> "kbank", keywords |-> <<
        <<"U0E01","U0E2A","U0E34","U0E01","U0E23">>,
        <<"k","b","a","n","k">>,
        <<"k","a","s","i","k","o","r","n">>,
        <<"k","-","b","a","n","k">>,
        <<"k"," ","b","a","n","k">>>>],
    [code |-> "ktb", keywords |-> <<
        <<"U0E01","U0E23","U0E38","U0E07","U0E44","U0E17","U0E22">>,
        <<"k","t","b">>,
        <<"k","r","u","n","g","t","h","a","i">>,
        <<"k","r","u","n","g"," ","t","h","a","i">>>>],
    [code |-> "scb", keywords |-> <<
        <<"U0E44","U0E17","U0E22","U0E1E","U0E32","U0E13","U0E34","U0E0A","U0E22","U0E4C">>,
        <<"s","c","b">>,
        <<"s","i","a","m"," ","c","o","m","m","e","r","c","i","a","l">>>>],
    [code |-> "bbl", keywords |-> <<
        <<"U0E01","U0E23","U0E38","U0E07","U0E40","U0E17","U0E1E">>,
        <<"b","b","l">>,
        <<"b","a","n","g","k","o","k"," ","b","a","n","k">>>>],
    [code |-> "bay", keywords |-> <<
        <<"U0E01","U0E23","U0E38","U0E07","U0E28","U0E23","U0E35">>,
        <<"b","a","y">>,
        <<"k","r","u","n","g","s","r","i">>>>],
    [code |-> "ttb", keywords |-> <<
        <<"U0E17","U0E2B","U0E32","U0E23","U0E44","U0E17","U0E22">>,
        <<"t","t","b">>,
        <<"t","m","b">>,
        <<"t","h","a","n","a","c","h","a","r","t">>>>]>>

\* thai_months of ReceiptParser._extract_date: abbreviation and month number,
\* in the order of the dict literal (Jan .. Dec)
thai_months == <<
    [abbr |-> <<"U0E21",".","U0E04",".">>, num |-> <<"0","1">>],
    [abbr |-> <<"U0E01",".","U0E1E",".">>, num |-> <<"0","2">>],
    [abbr |-> <<"U0E21","U0E35",".","U0E04",".">>, num |-> <<"0","3">>],
    [abbr |-> <<"U0E40","U0E21",".","U0E22",".">>, num |-> <<"0","4">>],
    [abbr |-> <<"U0E1E",".","U0E04",".">>, num |-> <<"0","5">>],
    [abbr |-> <<"U0E21","U0E34",".","U0E22",".">>, num |-> <<"0","6">>],
    [abbr |-> <<"U0E01",".","U0E04",".">>, num |-> <<"0","7">>],
    [abbr |-> <<"U0E2A",".","U0E04",".">>, num |-> <<"0","8">>],
    [abbr |-> <<"U0E01",".","U0E22",".">>, num |-> <<"0","9">>],
    [abbr |-> <<"U0E15",".","U0E04",".">>, num |-> <<"1","0">>],
    [abbr |-> <<"U0E1E",".","U0E22",".">>, num |-> <<"1","1">>],
    [abbr |-> <<"U0E18",".","U0E04",".">>, num |-> <<"1","2">>]>>


(***************************************************************************)
(* ReceiptParser (enhanced_parser.py)                                      *)
(***************************************************************************)
\* any keyword of the entry is a substring of the lower-cased text
EntryMatches(entry, text_lower) ==
    \E i \in 1..Len(entry.keywords) : Contains(text_lower, Lower(entry.keywords[i]))

\* the code of the first catalog entry, in catalog order, one of whose
\* keywords occurs in text_lower; 'unknown' when there is none
RECURSIVE FirstEntry(_, _, _)
FirstEntry(catalog, i, text_lower) ==
    IF i > Len(catalog) THEN "unknown"
    ELSE IF EntryMatches(catalog[i], text_lower) THEN catalog[i].code
    ELSE FirstEntry(catalog, i + 1, text_lower)

\* DetectTransactionType going through the catalog from its last entry
DetectTransactionType_Reversed(text) ==
    FirstEntry([i \in 1..Len(TRANSACTION_TYPES) |->
                   TRANSACTION_TYPES[Len(TRANSACTION_TYPES) + 1 - i]],
               1, Lower(text))

\* ReceiptParser._detect_transaction_type: the 'code' of the returned dict
\* (category and description are fixed by the code)
DetectTransactionType(text) == FirstEntry(TRANSACTION_TYPES, 1, Lower(text))

\* DetectBank without text.lower()
DetectBank_CaseSensitive(text) == FirstEntry(banks, 1, text)

\* ReceiptParser._detect_bank
DetectBank(text) == FirstEntry(banks, 1, Lower(text))

\* the number syntax [0-9,]+\.?[0-9]* in a group
NumberGroup == <<Open, Rep("digcomma", 1, -1), Rep("dot", 0, 1), Rep("digit", 0, -1), Close>>

\* \s*:?\s*
Separator == <<Rep("space", 0, -1), Rep("colon", 0, 1), Rep("space", 0, -1)>>

\* r'จำนวน\s*:?\s*([0-9,]+\.?[0-9]*)\s*บาท'  (re.IGNORECASE)
AmountPattern1 ==
    <<LitI(T_jamnuan)>> \o Separator \o NumberGroup
        \o <<Rep("space", 0, -1), LitI(T_baht)>>

\* r'\b([1-9][0-9]{1,}\.?[0-9]{0,2})\s*บาท'
AmountPattern2 ==
    <<WordB, Open, Rep("digit19", 1, 1), Rep("digit", 1, -1), Rep("dot", 0, 1),
      Rep("digit", 0, 2), Close, Rep("space", 0, -1), Lit(T_baht)>>

\* r'จำนวน\s*:?\s*([0-9,]+\.?[0-9]*)'  (re.IGNORECASE)
AmountPattern3 == <<LitI(T_jamnuan)>> \o Separator \o NumberGroup

One == Dec(<<"1">>, <<>>)

Million == Dec(<<"1","0","0","0","0","0","0">>, <<>>)

\* 1 <= amount <= 1000000
InSanityBound(amount) == FloatLeq(One, amount) /\ FloatLeq(amount, Million)

\* float(s.replace(',', ''))
FloatOf(s) == ToFloat(Replace(s, ",", <<>>))

\* max(amounts) of a non-empty list of floats
RECURSIVE MaxFloat(_)
MaxFloat(amounts) ==
    IF Len(amounts) = 1 THEN amounts[1]
    ELSE LET rest == MaxFloat(Tail(amounts))
         IN  IF FloatLess(amounts[1], rest) THEN rest ELSE amounts[1]

\* Pattern2Amount returning the first match instead of the largest
Pattern2Amount_First(matches) == FloatOf(matches[1])

\* the value pattern 2 of ReceiptParser._extract_amount returns for its matches
Pattern2Amount(matches) == MaxFloat([i \in 1..Len(matches) |-> FloatOf(matches[i])])

\* the value pattern 1 of ReceiptParser._extract_amount returns: the parsed
\* number of the first match, whatever its size; None when there is no match
\* or float() raises
Pattern1Amount(text) ==
    LET m == Search(AmountPattern1, text, 1)
        amount == FloatOf(Group(text, m, 1))
    IN  IF m.ok /\ amount # ValueError THEN amount ELSE None

\* pattern 3: the parsed number of the first match if it is within the bound
Pattern3Amount(text) ==
    LET m == Search(AmountPattern3, text, 1)
        amount == FloatOf(Group(text, m, 1))
    IN  IF m.ok /\ amount # ValueError /\ InSanityBound(amount)
        THEN amount ELSE None

\* ReceiptParser._extract_amount
ExtractAmount(text) ==
    LET first   == Pattern1Amount(text)
        matches == FindAll(AmountPattern2, text, 1)
    IN  IF first # None THEN first
        ELSE IF matches # <<>> THEN Pattern2Amount(matches)
        ELSE Pattern3Amount(text)

\* patterns of ReceiptParser._extract_fee, all under re.IGNORECASE
FeePatterns == <<
    <<LitI(T_kathamniam)>> \o Separator \o NumberGroup,
    <<LitI(T_fee)>> \o Separator \o NumberGroup,
    <<LitI(T_thamniam)>> \o Separator \o NumberGroup>>

\* the loop of _extract_fee from pattern i on
RECURSIVE FeeFrom(_, _)
FeeFrom(text, i) ==
    IF i > Len(FeePatterns) THEN Zero
    ELSE LET m == Search(FeePatterns[i], text, 1)
             fee == FloatOf(Group(text, m, 1))
         IN  IF m.ok /\ fee # ValueError THEN fee ELSE FeeFrom(text, i + 1)

\* ExtractFee returning None, as its Optional[float] annotation allows, when
\* no pattern yields a number
ExtractFee_NoneByDefault(text) ==
    IF \A i \in 1..Len(FeePatterns) :
          LET m == Search(FeePatterns[i], text, 1)
          IN  ~m.ok \/ FloatOf(Group(text, m, 1)) = ValueError
    THEN None ELSE FeeFrom(text, 1)

\* ReceiptParser._extract_fee
ExtractFee(text) == FeeFrom(text, 1)

\* [0-9]+ in a group
DigitsGroup == <<Open, Rep("digit", 1, -1), Close>>

\* patterns of ReceiptParser._extract_reference, all under re.IGNORECASE
ReferencePatterns == <<
    <<LitI(T_lekthi), Rep("space", 0, -1), LitI(T_raikan)>> \o Separator \o DigitsGroup,
    <<LitI(T_raikan)>> \o Separator \o DigitsGroup,
    <<LitI(T_reference)>> \o Separator \o DigitsGroup,
    <<LitI(T_ref)>> \o Separator \o DigitsGroup,
    <<WordB, Open, Rep("digit", 10, -1), Close, WordB>> >>

RECURSIVE ReferenceFrom(_, _)
ReferenceFrom(text, i) ==
    IF i > Len(ReferencePatterns) THEN None
    ELSE LET m == Search(ReferencePatterns[i], text, 1)
         IN  IF m.ok THEN Str(Group(text, m, 1)) ELSE ReferenceFrom(text, i + 1)

\* ReceiptParser._extract_reference
ExtractReference(text) == ReferenceFrom(text, 1)

\* rf'(\d{1,2})[^\d]*{re.escape(month_thai)}\s*(\d{2,4})'
ThaiDatePattern(month_thai) ==
    <<Open, Rep("digit", 1, 2), Close, Rep("nondigit", 0, -1), Lit(month_thai),
      Rep("space", 0, -1), Open, Rep("digit", 2, 4), Close>>

\* ConvertYear reading a 2-digit year as a year of the 2000s, as the numeric
\* date pattern does
ConvertYear_ShortYearGregorian(year) ==
    IF Len(year) = 2 THEN <<"2","0">> \o year
    ELSE IF Len(year) = 4 /\ DigitsToInt(year) > 2500
         THEN IntToStr(DigitsToInt(year) - 543)
    ELSE year

\* the Buddhist-to-Christian year conversion of the Thai-month strategy
ConvertYear(year) ==
    IF Len(year) = 2 THEN IntToStr(2500 + DigitsToInt(year) - 543)
    ELSE IF Len(year) = 4 /\ DigitsToInt(year) > 2500
         THEN IntToStr(DigitsToInt(year) - 543)
    ELSE year

\* f"{year}-{month_num}-{day.zfill(2)}" of a Thai-month match
ThaiDate(text, m, month_num) ==
    ConvertYear(Group(text, m, 2)) \o <<"-">> \o month_num \o <<"-">>
        \o ZFill(Replace(Group(text, m, 1), "d", <<>>), 2)

\* the loop over thai_months from entry i on: the date of the first month,
\* in table order, whose pattern matches; None when no month matches
RECURSIVE ThaiDateFrom(_, _)
ThaiDateFrom(text, i) ==
    IF i > Len(thai_months) THEN None
    ELSE LET m == Search(ThaiDatePattern(thai_months[i].abbr), text, 1)
         IN  IF m.ok THEN Str(ThaiDate(text, m, thai_months[i].num))
             ELSE ThaiDateFrom(text, i + 1)

\* r'(\d{1,2})[/-](\d{1,2})[/-](\d{2,4})'
NumericDatePattern ==
    <<Open, Rep("digit", 1, 2), Close, Rep("slashdash", 1, 1),
      Open, Rep("digit", 1, 2), Close, Rep("slashdash", 1, 1),
      Open, Rep("digit", 2, 4), Close>>

\* the standard date pattern: day, month, year with '20' before a 2-digit year
NumericDate(text) ==
    LET m == Search(NumericDatePattern, text, 1)
        year == Group(text, m, 3)
    IN  IF ~m.ok THEN None
        ELSE Str((IF Len(year) = 2 THEN <<"2","0">> \o year ELSE year) \o <<"-">>
                 \o ZFill(Group(text, m, 2), 2) \o <<"-">>
                 \o ZFill(Group(text, m, 1), 2))

\* ReceiptParser._extract_date
ExtractDate(text) ==
    LET thai == ThaiDateFrom(text, 1)
    IN  IF thai # None THEN thai ELSE NumericDate(text)

\* r'(\d{1,2}):(\d{2})'
TimePattern ==
    <<Open, Rep("digit", 1, 2), Close, Lit(<<":">>), Open, Rep("digit", 2, 2), Close>>

\* ReceiptParser._extract_time
ExtractTime(text) ==
    LET m == Search(TimePattern, text, 1)
    IN  IF ~m.ok THEN None
        ELSE Str(ZFill(Group(text, m, 1), 2) \o <<":">> \o Group(text, m, 2))

\* TotalAmount with the total computed whenever the amount is present
TotalAmount_WheneverAmount(amount, fee) ==
    IF amount # None THEN FloatAdd(amount, fee) ELSE None

\* the total of parse_receipt: amount + fee when both are truthy
TotalAmount(amount, fee) ==
    IF Truthy(amount) /\ Truthy(fee) THEN FloatAdd(amount, fee) ELSE None

\* ReceiptParser.parse_receipt
ParseReceiptResult(raw_text) ==
    LET amount == ExtractAmount(raw_text)
        fee    == ExtractFee(raw_text)
    IN  [transaction_type |-> DetectTransactionType(raw_text),
         amount           |-> amount,
         fee              |-> fee,
         total_amount     |-> TotalAmount(amount, fee),
         reference_number |-> ExtractReference(raw_text),
         date             |-> ExtractDate(raw_text),
         time             |-> ExtractTime(raw_text),
         bank             |-> DetectBank(raw_text),
         raw_text         |-> raw_text]


(***************************************************************************)
(* OCRService (ocr_service.py)                                             *)
\* Normalize with the fourth replace() writing the letter 'O' for 'o', after
\* the third has already rewritten 'O'
Normalize_LowerOToUpperO(text) ==
    LET r1 == Replace(text, ",", <<>>)
        r2 == Replace(r1, " ", <<>>)
        r3 == Replace(r2, "O", <<"0">>)
        r4 == Replace(r3, "o", <<"O">>)
        r5 == Replace(r4, "l", <<"1">>)
        r6 == Replace(r5, "I", <<"1">>)
        r7 == Replace(r6, "|", <<"1">>)
        r8 == Replace(r7, "U0E3F", <<>>)
    IN  Replace(r8, "B", <<>>)

(***************************************************************************)
\* the chain of replace() calls of OCRService._extract_amount, in its order
Normalize(text) ==
    LET r1 == Replace(text, ",", <<>>)
        r2 == Replace(r1, " ", <<>>)
        r3 == Replace(r2, "O", <<"0">>)
        r4 == Replace(r3, "o", <<"0">>)
        r5 == Replace(r4, "l", <<"1">>)
        r6 == Replace(r5, "I", <<"1">>)
        r7 == Replace(r6, "|", <<"1">>)
        r8 == Replace(r7, "U0E3F", <<>>)
    IN  Replace(r8, "B", <<>>)

\* [0-9]+\.?[0-9]{0,2} in a group
OcrNumberGroup == <<Open, Rep("digit", 1, -1), Rep("dot", 0, 1), Rep("digit", 0, 2), Close>>

\* patterns of OCRService._extract_amount, in list order
OcrAmountPatterns == <<
    <<Alt(<<T_jamnuan, T_yot, T_Amount, T_Total, T_ruam, T_oon>>)>>
        \o Separator \o OcrNumberGroup,
    OcrNumberGroup \o <<Rep("space", 0, -1), Alt(<<T_baht, T_THB, T_bahtsign>>)>>,
    <<WordB, Open, Rep("digit", 1, -1), Lit(<<".">>), Rep("digit", 2, 2), Close, WordB>>,
    <<WordB, Open, Rep("digit", 2, 6), Close, WordB>> >>

\* the inner loop over the matches of one pattern: the first, in text order,
\* that passes the sanity check; None when none passes
RECURSIVE FirstAccepted(_, _)
FirstAccepted(matches, i) ==
    IF i > Len(matches) THEN None
    ELSE LET amount == ToFloat(matches[i])
         IN  IF InSanityBound(amount) THEN amount
             ELSE FirstAccepted(matches, i + 1)

\* the outer loop over the patterns from pattern i on
RECURSIVE OcrAmountFrom(_, _)
OcrAmountFrom(cleaned, i) ==
    IF i > Len(OcrAmountPatterns) THEN None
    ELSE LET r == FirstAccepted(FindAll(OcrAmountPatterns[i], cleaned, 1), 1)
         IN  IF r # None THEN r ELSE OcrAmountFrom(cleaned, i + 1)

\* OCRService._extract_amount
OcrExtractAmount(text) == OcrAmountFrom(Normalize(text), 1)

\* OCRService._detect_bank
OcrDetectBank(text) == FirstEntry(ocr_banks, 1, Lower(text))

\* the month alternation (ม\.ค\.|ก\.พ\.|...) in a group
MonthGroup == <<Open, Alt([i \in 1..Len(thai_months) |-> thai_months[i].abbr]), Close>>

\* date_pattern of OCRService._extract_date
OcrDatePattern ==
    <<Open, Rep("digit", 1, 2), Close, Rep("space", 0, -1)>> \o MonthGroup
        \o <<Rep("space", 0, -1), Open, Rep("digit", 2, 4), Close>>

\* r'\d+[,.]?\d*', the whole match taken as the group
NumbersPattern ==
    <<Open, Rep("digit", 1, -1), Rep("commadot", 0, 1), Rep("digit", 0, -1), Close>>

\* all_numbers of OCRService._parse_receipt_text
AllNumbers(text) == FindAll(NumbersPattern, text, 1)

\* the text-search branch of OCRService._extract_date, for a match m
OcrTextDate(text, m) ==
    LET day   == IntToStr(DigitsToInt(Group(text, m, 1)))
        month == Group(text, m, 2)
        y     == Group(text, m, 3)
        year  == IF Len(y) = 4 THEN SubSeq(y, 3, 4) ELSE y
        tm    == Search(TimePattern, text, 1)
        date  == day \o <<" ">> \o month \o <<" ">> \o year
    IN  IF tm.ok
        THEN date \o <<" ">> \o Group(text, tm, 1) \o <<":">> \o Group(text, tm, 2)
        ELSE date

\* the all_numbers fallback of OCRService._extract_date; int() of a number
\* holding ',' or '.' raises and the except clause gives None
OcrFallbackDate(text, all_numbers) ==
    IF Len(all_numbers) >= 4 /\ CanInt(all_numbers[1]) /\ CanInt(all_numbers[2])
    THEN LET mm    == Search(MonthGroup, text, 1)
             month == IF mm.ok THEN Group(text, mm, 1) ELSE thai_months[1].abbr
         IN  Str(IntToStr(DigitsToInt(all_numbers[1])) \o <<" ">> \o month \o <<" ">>
                 \o IntToStr(DigitsToInt(all_numbers[2]) % 100) \o <<" ">>
                 \o all_numbers[3] \o <<":">> \o all_numbers[4])
    ELSE None

\* OCRService._extract_date
OcrExtractDate(text, all_numbers) ==
    LET m == Search(OcrDatePattern, text, 1)
    IN  IF m.ok THEN Str(OcrTextDate(text, m)) ELSE OcrFallbackDate(text, all_numbers)

\* sum(confidences), in hundredths
RECURSIVE SumConf(_)
SumConf(ds) == IF ds = <<>> THEN 0 ELSE ds[1].conf + SumConf(Tail(ds))

\* Confidence taking an empty list of detections as fully confident
Confidence_EmptyAsFull(ds) ==
    IF ds = <<>> THEN 100
    ELSE LET n == Len(ds)
             q == SumConf(ds) \div n
             r == SumConf(ds) % n
         IN  IF 2 * r > n \/ (2 * r = n /\ q % 2 = 1) THEN q + 1 ELSE q

\* round(avg_confidence, 2) in hundredths: the nearest hundredth of
\* sum / len, a tie going to the even one; 0 for no detections
Confidence(ds) ==
    IF ds = <<>> THEN 0
    ELSE LET n == Len(ds)
             q == SumConf(ds) \div n
             r == SumConf(ds) % n
         IN  IF 2 * r > n \/ (2 * r = n /\ q % 2 = 1) THEN q + 1 ELSE q

\* all_text of OCRService._parse_receipt_text: ' '.join of the texts
AllText(ds) == Join([i \in 1..Len(ds) |-> ds[i].text], <<" ">>)

\* OCRService._parse_receipt_text
ParseReceiptText(ocr_results) ==
    LET all_text    == AllText(ocr_results)
        all_numbers == AllNumbers(all_text)
    IN  [amount      |-> OcrExtractAmount(all_text),
         bank        |-> OcrDetectBank(all_text),
         date        |-> OcrExtractDate(all_text, all_numbers),
         raw_text    |-> all_text,
         all_numbers |-> all_numbers,
         confidence  |-> Confidence(ocr_results)]


(***************************************************************************)
(* Inputs: the OCR detections (text, confidence in hundredths) a receipt    *)
(* is read as.  A receipt is a list of at most MaxDet detections of one     *)
(* vocabulary.                                                              *)
(***************************************************************************)
MaxDet == 2

\* amount lines
AmountDetections == {
    \* 'จำนวน: 100.00 บาท'
    [text |-> <<"U0E08","U0E33","U0E19","U0E27","U0E19",":"," ","1","0","0",".","0","0"," ","U0E1A","U0E32","U0E17">>,
     conf |-> 100],
    \* 'จำนวน: loo.0o บาท'
    [text |-> <<"U0E08","U0E33","U0E19","U0E27","U0E19",":"," ","l","o","o",".","0","o"," ","U0E1A","U0E32","U0E17">>,
     conf |-> 50],
    \* 'จำนวน: 2,000,000 บาท'
    [text |-> <<"U0E08","U0E33","U0E19","U0E27","U0E19",":"," ","2",",","0","0","0",",","0","0","0"," ","U0E1A","U0E32","U0E17">>,
     conf |-> 100],
    \* '50 บาท'
    [text |-> <<"5","0"," ","U0E1A","U0E32","U0E17">>,
     conf |-> 50],
    \* '200 บาท'
    [text |-> <<"2","0","0"," ","U0E1A","U0E32","U0E17">>,
     conf |-> 100],
    \* '1,234.56 บาท'
    [text |-> <<"1",",","2","3","4",".","5","6"," ","U0E1A","U0E32","U0E17">>,
     conf |-> 50],
    \* 'จำนวน 5000'
    [text |-> <<"U0E08","U0E33","U0E19","U0E27","U0E19"," ","5","0","0","0">>,
     conf |-> 100],
    \* '2000000'
    [text |-> <<"2","0","0","0","0","0","0">>,
     conf |-> 50]}

\* amount and fee lines
FeeDetections == {
    \* 'จำนวน: 100.00 บาท'
    [text |-> <<"U0E08","U0E33","U0E19","U0E27","U0E19",":"," ","1","0","0",".","0","0"," ","U0E1A","U0E32","U0E17">>,
     conf |-> 100],
    \* 'จำนวน: 0 บาท'
    [text |-> <<"U0E08","U0E33","U0E19","U0E27","U0E19",":"," ","0"," ","U0E1A","U0E32","U0E17">>,
     conf |-> 50],
    \* 'ค่าธรรมเนียม: 0.00 บาท'
    [text |-> <<"U0E04","U0E48","U0E32","U0E18","U0E23","U0E23","U0E21","U0E40","U0E19","U0E35","U0E22","U0E21",":"," ","0",".","0","0"," ","U0E1A","U0E32","U0E17">>,
     conf |-> 100],
    \* 'ค่าธรรมเนียม: 10.50'
    [text |-> <<"U0E04","U0E48","U0E32","U0E18","U0E23","U0E23","U0E21","U0E40","U0E19","U0E35","U0E22","U0E21",":"," ","1","0",".","5","0">>,
     conf |-> 50],
    \* 'Fee: 5'
    [text |-> <<"F","e","e",":"," ","5">>,
     conf |-> 100],
    \* 'ค่าธรรมเนียม ,'
    [text |-> <<"U0E04","U0E48","U0E32","U0E18","U0E23","U0E23","U0E21","U0E40","U0E19","U0E35","U0E22","U0E21"," ",",">>,
     conf |-> 50],
    \* 'ธรรมเนียม 3'
    [text |-> <<"U0E18","U0E23","U0E23","U0E21","U0E40","U0E19","U0E35","U0E22","U0E21"," ","3">>,
     conf |-> 100]}

\* transaction-type and bank lines, in several letter cases
KeywordDetections == {
    \* 'โอนเงินสำเร็จ'
    [text |-> <<"U0E42","U0E2D","U0E19","U0E40","U0E07","U0E34","U0E19","U0E2A","U0E33","U0E40","U0E23","U0E47","U0E08">>,
     conf |-> 100],
    \* 'เติมเงิน'
    [text |-> <<"U0E40","U0E15","U0E34","U0E21","U0E40","U0E07","U0E34","U0E19">>,
     conf |-> 50],
    \* 'ชำระเงิน'
    [text |-> <<"U0E0A","U0E33","U0E23","U0E30","U0E40","U0E07","U0E34","U0E19">>,
     conf |-> 100],
    \* 'จ่ายบิล'
    [text |-> <<"U0E08","U0E48","U0E32","U0E22","U0E1A","U0E34","U0E25">>,
     conf |-> 50],
    \* 'Bill Payment'
    [text |-> <<"B","i","l","l"," ","P","a","y","m","e","n","t">>,
     conf |-> 100],
    \* 'bill payment'
    [text |-> <<"b","i","l","l"," ","p","a","y","m","e","n","t">>,
     conf |-> 50],
    \* 'TRANSFER'
    [text |-> <<"T","R","A","N","S","F","E","R">>,
     conf |-> 100],
    \* 'transfer'
    [text |-> <<"t","r","a","n","s","f","e","r">>,
     conf |-> 50],
    \* 'KBank'
    [text |-> <<"K","B","a","n","k">>,
     conf |-> 100],
    \* 'kbank'
    [text |-> <<"k","b","a","n","k">>,
     conf |-> 50],
    \* 'กรุงไทย SCB'
    [text |-> <<"U0E01","U0E23","U0E38","U0E07","U0E44","U0E17","U0E22"," ","S","C","B">>,
     conf |-> 100]}

\* date and time lines
DateDetections == {
    \* '1d ส.ค. 68'
    [text |-> <<"1","d"," ","U0E2A",".","U0E04","."," ","6","8">>,
     conf |-> 100],
    \* '15 ก.ย. 67'
    [text |-> <<"1","5"," ","U0E01",".","U0E22","."," ","6","7">>,
     conf |-> 50],
    \* '01/08/2568'
    [text |-> <<"0","1","/","0","8","/","2","5","6","8">>,
     conf |-> 100],
    \* '1 ส.ค. 256'
    [text |-> <<"1"," ","U0E2A",".","U0E04","."," ","2","5","6">>,
     conf |-> 50],
    \* '1 ส.ค. 2568'
    [text |-> <<"1"," ","U0E2A",".","U0E04","."," ","2","5","6","8">>,
     conf |-> 100],
    \* '7 ม.ค. 2024'
    [text |-> <<"7"," ","U0E21",".","U0E04","."," ","2","0","2","4">>,
     conf |-> 50],
    \* '5-6-24'
    [text |-> <<"5","-","6","-","2","4">>,
     conf |-> 100],
    \* '1/8/256'
    [text |-> <<"1","/","8","/","2","5","6">>,
     conf |-> 50],
    \* '15:33'
    [text |-> <<"1","5",":","3","3">>,
     conf |-> 100]}


\* lines with the labels and currency markers of OCRService._extract_amount
LabelDetections == {
    \* 'Amount: 100 THB'
    [text |-> <<"A","m","o","u","n","t",":"," ","1","0","0"," ","T","H","B">>,
     conf |-> 100],
    \* 'Total 250.00'
    [text |-> <<"T","o","t","a","l"," ","2","5","0",".","0","0">>,
     conf |-> 50],
    \* '100 THB'
    [text |-> <<"1","0","0"," ","T","H","B">>,
     conf |-> 100],
    \* '100 ฿'
    [text |-> <<"1","0","0"," ","U0E3F">>,
     conf |-> 50],
    \* 'ยอด 300'
    [text |-> <<"U0E22","U0E2D","U0E14"," ","3","0","0">>,
     conf |-> 100],
    \* 'รวม: 75.50 บาท'
    [text |-> <<"U0E23","U0E27","U0E21",":"," ","7","5",".","5","0"," ","U0E1A","U0E32","U0E17">>,
     conf |-> 50]}

Vocabularies ==
    {AmountDetections, FeeDetections, KeywordDetections, DateDetections, LabelDetections}

\* the lists of at most n detections drawn from the set S
ListsUpTo(S, n) == UNION {[1..k -> S] : k \in 0..n}

\* a result not computed yet
NotRun == [notrun |-> TRUE]

\* no text handed to the normalizer
NoText == [s |-> <<>>, text |-> <<>>, passes |-> 0]

\* an image file that exists and that every step of process_receipt reads
GoodImage == [exists |-> TRUE, fault |-> "none"]

\* no /scan-receipt request received
NoRequest ==
    [pc            |-> "idle",   \* idle, saved, raised, finally, done
     status        |-> 0,        \* the HTTP status of the response
     body          |-> NotRun,   \* the content of the JSONResponse
     temp          |-> FALSE,    \* temp_path.exists()
     created       |-> FALSE,    \* temp_path was created by this request
     written       |-> FALSE,    \* the upload was written to temp_path
     unlink_failed |-> FALSE]    \* temp_path.unlink() raised

(***************************************************************************)
(* The state machine: a receipt is read (dets); the parser and the OCR     *)
(* service each compute their record from it, once, in any order.          *)
(***************************************************************************)
Init ==
    /\ dets \in UNION {ListsUpTo(V, MaxDet) : V \in Vocabularies}
    /\ parsed = NotRun
    /\ ocr = NotRun
    /\ norm = NoText
    /\ image = GoodImage
    /\ receipt = NotRun
    /\ scan = NoRequest

\* receipt_parser.parse_receipt(raw_text) on the text of the receipt
ParseReceipt ==
    /\ parsed = NotRun
    /\ parsed' = ParseReceiptResult(AllText(dets))
    /\ UNCHANGED <<dets, ocr, norm, image, receipt, scan>>

\* ocr_service._parse_receipt_text(results)
OcrParseReceiptText ==
    /\ ocr = NotRun
    /\ ocr' = ParseReceiptText(dets)
    /\ UNCHANGED <<dets, parsed, norm, image, receipt, scan>>

Next == ParseReceipt \/ OcrParseReceiptText

Spec == Init /\ [][Next]_vars

(***************************************************************************)
(* The normalizer of OCRService._extract_amount applied, MaxPasses times,  *)
(* to every text of at most MaxLen characters over the characters it       *)
(* rewrites or removes and three it leaves alone.                          *)
(***************************************************************************)
MaxLen == 3

MaxPasses == 2

\* ',' ' ' 'O' 'o' 'l' 'I' '|' '฿' 'B' are the characters the chain of
\* replace() calls names; '0' and '1' are what it writes
NormalizerAlphabet == {",", " ", "O", "o", "l", "I", "|", "U0E3F", "B", "0", "1", "a"}

\* the texts of at most n characters
TextsUpTo(n) == UNION {[1..k -> NormalizerAlphabet] : k \in 0..n}

InitNormalize ==
    /\ dets = <<>>
    /\ parsed = NotRun
    /\ ocr = NotRun
    /\ norm \in {[s |-> t, text |-> t, passes |-> 0] : t \in TextsUpTo(MaxLen)}
    /\ image = GoodImage
    /\ receipt = NotRun
    /\ scan = NoRequest

\* cleaned = text.replace(',', '') ... .replace('B', '') on the current text
NormalizeText ==
    /\ norm.passes < MaxPasses
    /\ norm' = [norm EXCEPT !.text = Normalize(@), !.passes = @ + 1]
    /\ UNCHANGED <<dets, parsed, ocr, image, receipt, scan>>

NextNormalize == NormalizeText

SpecNormalize == InitNormalize /\ [][NextNormalize]_vars

(***************************************************************************)
(* OCRService.process_receipt and the /scan-receipt handler of main.py.    *)
(* image is the image file: whether it exists, and the step of             *)
(* process_receipt, if any, that raises on it.  dets is what the reader    *)
(* returns for it.                                                         *)
(***************************************************************************)
\* the steps of process_receipt that can raise inside its try block:
\* _preprocess_image (cv2.imread in its except clause), reader.readtext,
\* _parse_receipt_text
Faults == {"none", "preprocess", "readtext", "parse"}

\* the dict of the `except Exception as e` clause of process_receipt
ExceptionResult(e) ==
    [success |-> FALSE, error |-> e, traceback |-> e]

\* ProcessReceiptResult without the `if not results` return: an empty list
\* of detections goes on to the parse step
ProcessReceiptResult_NoEmptyCheck(img, results) ==
    IF ~img.exists
    THEN [success |-> FALSE, error |-> "Image file not found"]
    ELSE IF img.fault # "none"
    THEN ExceptionResult(img.fault)
    ELSE LET parsed_data == ParseReceiptText(results)
         IN  [success     |-> TRUE,
              amount      |-> parsed_data.amount,
              bank        |-> parsed_data.bank,
              date        |-> parsed_data.date,
              raw_text    |-> parsed_data.raw_text,
              all_numbers |-> parsed_data.all_numbers,
              confidence  |-> parsed_data.confidence]

\* OCRService.process_receipt(image_path), the reader returning results
ProcessReceiptResult(img, results) ==
    IF ~img.exists
    THEN [success |-> FALSE, error |-> "Image file not found"]
    ELSE IF img.fault \in {"preprocess", "readtext"}
    THEN ExceptionResult(img.fault)
    ELSE IF results = <<>>
    THEN [success    |-> FALSE,
          error       |-> "No text found in image",
          raw_text    |-> <<>>,
          all_numbers |-> <<>>]
    ELSE IF img.fault = "parse"
    THEN ExceptionResult(img.fault)
    ELSE LET parsed_data == ParseReceiptText(results)
         IN  [success     |-> TRUE,
              amount      |-> parsed_data.amount,
              bank        |-> parsed_data.bank,
              date        |-> parsed_data.date,
              raw_text    |-> parsed_data.raw_text,
              all_numbers |-> parsed_data.all_numbers,
              confidence  |-> parsed_data.confidence]

\* the detections of the receipts handed to process_receipt:
\* 'จำนวน: 100.00 บาท', 'KBank', '15 ก.ย. 67'
ServiceDetections == {
    [text |-> T_jamnuan \o <<":"," ","1","0","0",".","0","0"," ">> \o T_baht,
     conf |-> 100],
    [text |-> <<"K","B","a","n","k">>, conf |-> 50],
    [text |-> <<"1","5"," ","U0E01",".","U0E22","."," ","6","7">>, conf |-> 100]}

\* ocr_service.process_receipt(image_path) called on the image
ProcessReceipt ==
    /\ receipt = NotRun
    /\ receipt' = ProcessReceiptResult(image, dets)
    /\ UNCHANGED <<dets, parsed, ocr, norm, image, scan>>

\* scan_receipt rejecting the request before the try block: 503 when the OCR
\* service is not available, 400 for no file, no content type or a content
\* type that is not image/*
ScanReject ==
    /\ scan.pc = "idle"
    /\ \E available \in BOOLEAN, content \in {"nofile", "notype", "text", "image"} :
          /\ ~available \/ content # "image"
          /\ scan' = [scan EXCEPT !.pc = "done",
                                  !.status = IF ~available THEN 503 ELSE 400]
    /\ UNCHANGED <<dets, parsed, ocr, norm, image, receipt>>

\* scan_receipt saving the upload: temp_path.open("wb") and copyfileobj;
\* open can fail (no file is created), the copy can fail (the file exists,
\* partly written)
ScanSave ==
    /\ scan.pc = "idle"
    /\ \E outcome \in {"ok", "open_fails", "copy_fails"} :
          scan' = [scan EXCEPT
                      !.pc      = IF outcome = "ok" THEN "saved" ELSE "raised",
                      !.temp    = outcome # "open_fails",
                      !.created = outcome # "open_fails",
                      !.written = outcome = "ok"]
    /\ UNCHANGED <<dets, parsed, ocr, norm, image, receipt>>

\* scan_receipt calling ocr_service.process_receipt(str(temp_path)) and
\* building the JSONResponse, which can raise
ScanProcess ==
    /\ scan.pc = "saved"
    /\ LET result == ProcessReceiptResult(
                         [exists |-> scan.temp, fault |-> image.fault], dets)
       IN  \E responds \in BOOLEAN :
              scan' = IF responds
                      THEN [scan EXCEPT !.pc = "finally", !.status = 200,
                                        !.body = result]
                      ELSE [scan EXCEPT !.pc = "raised"]
    /\ UNCHANGED <<dets, parsed, ocr, norm, image, receipt>>

\* the `except Exception as e` clause of scan_receipt: HTTPException 500
ScanExcept ==
    /\ scan.pc = "raised"
    /\ scan' = [scan EXCEPT !.pc = "finally", !.status = 500]
    /\ UNCHANGED <<dets, parsed, ocr, norm, image, receipt>>

\* ScanFinally without the unlink: the handler completes and leaves the
\* temp file where it is
ScanFinally_KeepFile ==
    /\ scan.pc = "finally"
    /\ scan' = [scan EXCEPT !.pc = "done"]
    /\ UNCHANGED <<dets, parsed, ocr, norm, image, receipt>>

\* the finally clause of scan_receipt: unlink the temp file if it exists;
\* a failure of unlink is printed and swallowed
ScanFinally ==
    /\ scan.pc = "finally"
    /\ IF scan.temp
       THEN \E unlinked \in BOOLEAN :
               scan' = [scan EXCEPT !.pc = "done",
                                    !.temp = ~unlinked,
                                    !.unlink_failed = ~unlinked]
       ELSE scan' = [scan EXCEPT !.pc = "done"]
    /\ UNCHANGED <<dets, parsed, ocr, norm, image, receipt>>

InitService ==
    /\ dets \in ListsUpTo(ServiceDetections, MaxDet)
    /\ parsed = NotRun
    /\ ocr = NotRun
    /\ norm = NoText
    /\ image \in [exists : BOOLEAN, fault : Faults]
    /\ receipt = NotRun
    /\ scan = NoRequest

NextService ==
    \/ ProcessReceipt
    \/ ScanReject
    \/ ScanSave
    \/ ScanProcess
    \/ ScanExcept
    \/ ScanFinally

SpecService == InitService /\ [][NextService]_vars

(***************************************************************************)
(* Properties                                                              *)
(***************************************************************************)
\* the text of the receipt in the current state
Text == AllText(dets)

\* example lines
Line_Amount100 == T_jamnuan \o <<":"," ","1","0","0",".","0","0"," ">> \o T_baht

Line_AmountNoisy == T_jamnuan \o <<":"," ","l","o","o",".","0","o"," ">> \o T_baht

Line_AmountCommas == <<"1",",","2","3","4",".","5","6"," ">> \o T_baht

Line_AmountTwoMillion ==
    T_jamnuan \o <<":"," ","2",",","0","0","0",",","0","0","0"," ">> \o T_baht

Line_50Baht == <<"5","0"," ">> \o T_baht

Line_200Baht == <<"2","0","0"," ">> \o T_baht

Line_FeeZero == T_kathamniam \o <<":"," ","0",".","0","0"," ">> \o T_baht

Line_Fee1050 == T_kathamniam \o <<":"," ","1","0",".","5","0">>

\* example values
Hundred == Dec(<<"1","0","0">>, <<>>)

\* a value is a float
IsFloat(v) == DOMAIN v = {"ip", "fp"}

\* C1: in parse_receipt, total_amount is amount + fee exactly when amount is
\* present and nonzero and fee is nonzero, and is absent in every other case;
\* the receipt "amount 100.00, fee 0.00" has amount 100, fee 0 and no total,
\* and the receipt "amount 100.00, fee 10.50" has the total 110.5.
C1_TotalOnlyWhenBothNonzero ==
    parsed # NotRun =>
        /\ IF parsed.amount # None /\ parsed.amount # Zero /\ parsed.fee # Zero
           THEN parsed.total_amount = FloatAdd(parsed.amount, parsed.fee)
           ELSE parsed.total_amount = None
        /\ Text = Line_Amount100 \o <<" ">> \o Line_FeeZero =>
              /\ parsed.amount = Hundred
              /\ parsed.fee = Zero
              /\ parsed.total_amount = None
        /\ Text = Line_Amount100 \o <<" ">> \o Line_Fee1050 =>
              parsed.total_amount = Dec(<<"1","1","0">>, <<"5">>)

\* C1 witness: a parsed receipt with a nonzero amount and a nonzero fee, and
\* their sum as the total
C1_Witness ==
    /\ parsed # NotRun
    /\ parsed.amount = Hundred
    /\ parsed.fee = Dec(<<"1","0">>, <<"5">>)
    /\ parsed.total_amount = Dec(<<"1","1","0">>, <<"5">>)

\* the number fee pattern i yields on the text: the parsed group of its first
\* match, or ValueError when it has no match or the group does not parse
FeeNumber(i, s) ==
    LET found == FindAll(FeePatterns[i], s, 1)
    IN  IF found = <<>> THEN ValueError ELSE FloatOf(found[1])

\* C2: the fee is always a number, never absent: the number of the first
\* fee pattern, in pattern order, that yields one, and 0.0 when none does
\* (also when a pattern matches and its captured text does not parse).
C2_FeeAlwaysNumeric ==
    parsed # NotRun =>
        LET yielding == {i \in 1..Len(FeePatterns) : FeeNumber(i, Text) # ValueError}
        IN  /\ parsed.fee # None
            /\ IsFloat(parsed.fee)
            /\ IF yielding = {} THEN parsed.fee = Zero
               ELSE parsed.fee =
                      FeeNumber(CHOOSE i \in yielding : \A j \in yielding : i <= j, Text)

\* C2 witness: a fee label is matched, its captured text is not a number, no
\* pattern yields one, and the fee is 0.0
C2_Witness ==
    /\ parsed # NotRun
    /\ FindAll(FeePatterns[1], Text, 1) # <<>>
    /\ \A i \in 1..Len(FeePatterns) : FeeNumber(i, Text) = ValueError
    /\ parsed.fee = Zero

\* C3: an amount either extractor returns satisfies 1 <= amount <= 1,000,000.
\* ReceiptParser._extract_amount returns 2000000.0 for the labelled amount
\* 2,000,000 and 0.0 for the labelled amount 0.
C3_AmountWithinSanityBound ==
    /\ (parsed # NotRun /\ parsed.amount # None) => InSanityBound(parsed.amount)
    /\ (ocr # NotRun /\ ocr.amount # None) => InSanityBound(ocr.amount)

\* the numbers a pattern matches in a text, in text order (ValueError for a
\* match whose group does not parse)
MatchedNumbers(p, s) ==
    LET found == FindAll(p, s, 1) IN [i \in 1..Len(found) |-> FloatOf(found[i])]

IsAccepted(v) == v # ValueError /\ InSanityBound(v)

\* the matches of a pattern that parse and pass the sanity bound, in text order
AcceptedNumbers(p, s) == SelectSeq(MatchedNumbers(p, s), IsAccepted)

\* the first accepted match, in text order, of the earliest pattern of the
\* list that has one; None when no pattern has one
FirstAcceptedOfEarliest(patterns, s) ==
    LET having == {i \in 1..Len(patterns) : AcceptedNumbers(patterns[i], s) # <<>>}
    IN  IF having = {} THEN None
        ELSE AcceptedNumbers(
                 patterns[CHOOSE i \in having : \A j \in having : i <= j], s)[1]

\* C4 as stated: each amount extractor returns the first match, in text order,
\* of the earliest of its patterns that has a match passing the sanity bound,
\* and None when there is none.  ReceiptParser returns 200.0 for
\* '50 บาท 200 บาท'.
C4_FirstAcceptedOfEarliestPattern ==
    /\ ocr # NotRun =>
          ocr.amount = FirstAcceptedOfEarliest(OcrAmountPatterns, Normalize(Text))
    /\ parsed # NotRun =>
          parsed.amount = FirstAcceptedOfEarliest(
              <<AmountPattern1, AmountPattern2, AmountPattern3>>, Text)

\* v is the largest of the numbers
IsLargest(v, numbers) ==
    /\ \E i \in 1..Len(numbers) : numbers[i] = v
    /\ \A i \in 1..Len(numbers) : FloatLeq(numbers[i], v)

\* C4 amended: OCRService._extract_amount returns the first match, in text
\* order, of the earliest of its four patterns that has a match passing the
\* sanity bound, and None when there is none.  ReceiptParser._extract_amount
\* returns the number of the first match of its labelled pattern
\* ('จำนวน n บาท') when it parses, whatever its size; otherwise the largest of
\* the matches of its 'n บาท' pattern; otherwise the first match of its
\* labelled pattern without 'บาท' when it parses and passes the sanity bound;
\* otherwise None.  So a labelled amount within the bound, matched by the
\* first pattern, is returned by both whatever other numbers the text holds.
C4_Amended ==
    /\ ocr # NotRun =>
          ocr.amount = FirstAcceptedOfEarliest(OcrAmountPatterns, Normalize(Text))
    /\ parsed # NotRun =>
          LET n1 == MatchedNumbers(AmountPattern1, Text)
              n2 == MatchedNumbers(AmountPattern2, Text)
              n3 == MatchedNumbers(AmountPattern3, Text)
          IN  IF n1 # <<>> /\ n1[1] # ValueError THEN parsed.amount = n1[1]
              ELSE IF n2 # <<>> THEN IsLargest(parsed.amount, n2)
              ELSE IF n3 # <<>> /\ IsAccepted(n3[1]) THEN parsed.amount = n3[1]
              ELSE parsed.amount = None
    /\ (ocr # NotRun /\ parsed # NotRun
          /\ MatchedNumbers(OcrAmountPatterns[1], Normalize(Text)) # <<>>
          /\ MatchedNumbers(AmountPattern1, Text) # <<>>
          /\ IsAccepted(MatchedNumbers(OcrAmountPatterns[1], Normalize(Text))[1])
          /\ IsAccepted(MatchedNumbers(AmountPattern1, Text)[1])) =>
          /\ ocr.amount = MatchedNumbers(OcrAmountPatterns[1], Normalize(Text))[1]
          /\ parsed.amount = MatchedNumbers(AmountPattern1, Text)[1]

\* C4 witness: on '50 บาท 200 บาท' the OCR service returns the first match and
\* the parser the largest
C4_Witness ==
    /\ ocr # NotRun /\ parsed # NotRun
    /\ Text = Line_50Baht \o <<" ">> \o Line_200Baht
    /\ ocr.amount = Dec(<<"5","0">>, <<>>)
    /\ parsed.amount = Dec(<<"2","0","0">>, <<>>)

\* the lines an amount is written on with look-alike characters or thousands
\* commas, and the value of the clean digits
NoisyAmountLines == {
    [text |-> Line_AmountNoisy, value |-> Hundred],
    [text |-> Line_AmountCommas, value |-> Dec(<<"1","2","3","4">>, <<"5","6">>)]}

\* C5: for a labelled or baht-suffixed amount written with look-alike
\* characters (o/O for 0, l/I/| for 1) or thousands commas, both extractors
\* return the value of the clean digits.  ReceiptParser._extract_amount
\* returns None for 'จำนวน: loo.0o บาท' and 234.56 for '1,234.56 บาท'.
C5_NoiseRobustAmount ==
    \A line \in NoisyAmountLines :
        Text = line.text =>
            /\ ocr # NotRun => ocr.amount = line.value
            /\ parsed # NotRun => parsed.amount = line.value

\* the catalog entry of a type code
EntryOf(code) ==
    TRANSACTION_TYPES[CHOOSE i \in 1..Len(TRANSACTION_TYPES) :
                          TRANSACTION_TYPES[i].code = code]

\* some keyword of the type occurs in the lower-cased text
TypeOccurs(code, s) ==
    \E i \in 1..Len(EntryOf(code).keywords) :
        Contains(Lower(s), Lower(EntryOf(code).keywords[i]))

\* the order of the catalog the classifier is to follow
TypeOrder == <<"topup", "payment", "bill_payment", "transfer">>

\* C6: the classifier returns the first type, in the order topup, payment,
\* bill_payment, transfer, one of whose keywords is a substring of the
\* lower-cased text, and 'unknown' when no keyword occurs; it returns a
\* result for every text.
C6_FirstTypeInCatalogOrder ==
    parsed # NotRun =>
        LET occurring == {i \in 1..Len(TypeOrder) : TypeOccurs(TypeOrder[i], Text)}
        IN  /\ parsed.transaction_type
                  \in {TypeOrder[i] : i \in 1..Len(TypeOrder)} \cup {"unknown"}
            /\ IF occurring = {} THEN parsed.transaction_type = "unknown"
               ELSE parsed.transaction_type =
                      TypeOrder[CHOOSE i \in occurring : \A j \in occurring : i <= j]

\* C6 witness: keywords of payment and of a later type both occur, and the
\* text is classified as payment
C6_Witness ==
    /\ parsed # NotRun
    /\ TypeOccurs("payment", Text)
    /\ TypeOccurs("transfer", Text)
    /\ ~TypeOccurs("topup", Text)
    /\ parsed.transaction_type = "payment"

\* str.upper() of an ASCII text
Upper(s) ==
    [i \in 1..Len(s) |->
        IF \E k \in 1..26 : LowerChars[k] = s[i]
        THEN UpperChars[CHOOSE k \in 1..26 : LowerChars[k] = s[i]] ELSE s[i]]

\* for each line of the vocabularies, the lines that differ from it only in
\* letter case
CasePartners ==
    [d \in UNION Vocabularies |->
        {e \in UNION Vocabularies : Lower(e.text) = Lower(d.text)}]

\* texts that differ from the text of the receipt only in letter case: the
\* text in lower case, the text in upper case, and the text with one line
\* replaced by a line of another letter case
CaseVariants ==
    {Lower(Text), Upper(Text)}
        \cup UNION {{AllText([dets EXCEPT ![i] = e]) : e \in CasePartners[dets[i]]} :
                       i \in 1..Len(dets)}

\* C7: for texts that differ only in letter case the bank detectors return
\* the same bank code and the classifier returns the same type code.
C7_CaseInsensitiveDetection ==
    /\ parsed # NotRun =>
          \A v \in CaseVariants :
              /\ DetectBank(v) = parsed.bank
              /\ DetectTransactionType(v) = parsed.transaction_type
    /\ ocr # NotRun =>
          \A v \in CaseVariants : OcrDetectBank(v) = ocr.bank

\* C7 witness: a text with capital letters whose bank and type are detected
C7_Witness ==
    /\ parsed # NotRun /\ ocr # NotRun
    /\ Text # Lower(Text)
    /\ Cardinality(CaseVariants) > 2
    /\ parsed.bank = "kbank" /\ ocr.bank = "kbank"
    /\ parsed.transaction_type = "transfer"

\* the first month of the table, in table order, whose pattern matches
FirstMonthMatching(s) ==
    CHOOSE i \in 1..Len(thai_months) :
        /\ Search(ThaiDatePattern(thai_months[i].abbr), s, 1).ok
        /\ \A j \in 1..(i - 1) : ~Search(ThaiDatePattern(thai_months[j].abbr), s, 1).ok

SomeMonthMatches(s) ==
    \E i \in 1..Len(thai_months) : Search(ThaiDatePattern(thai_months[i].abbr), s, 1).ok

Line_Date1Aug68 == <<"1","d"," ","U0E2A",".","U0E04","."," ","6","8">>

Line_Date15Sep67 == <<"1","5"," ","U0E01",".","U0E22","."," ","6","7">>

Line_Date01082568 == <<"0","1","/","0","8","/","2","5","6","8">>

Date_2025_08_01 == <<"2","0","2","5","-","0","8","-","0","1">>

Date_2024_09_15 == <<"2","0","2","4","-","0","9","-","1","5">>

\* C8: in the Thai-month strategy, for the match '<day> <abbreviation> <year>'
\* the date is year-month-day with the year 2500 + yy - 543 for a 2-digit
\* year, year - 543 for a 4-digit year greater than 2500 and the year
\* unchanged otherwise, the month the table's number of the abbreviation and
\* the day padded to 2 digits; '1d ส.ค. 68' gives 2025-08-01 and
\* '15 ก.ย. 67' gives 2024-09-15.
C8_ThaiMonthDate ==
    (parsed # NotRun /\ SomeMonthMatches(Text)) =>
        LET i    == FirstMonthMatching(Text)
            m    == Search(ThaiDatePattern(thai_months[i].abbr), Text, 1)
            day  == Group(Text, m, 1)
            year == Group(Text, m, 2)
            y    == DigitsToInt(year)
            yyyy == IF Len(year) = 2 THEN IntToStr(2500 + y - 543)
                    ELSE IF Len(year) = 4 /\ y > 2500 THEN IntToStr(y - 543)
                    ELSE year
            dd   == IF Len(day) = 1 THEN <<"0">> \o day ELSE day
            mm   == ZFill(IntToStr(i), 2)
        IN  /\ parsed.date = Str(yyyy \o <<"-">> \o mm \o <<"-">> \o dd)
            /\ Text = Line_Date1Aug68 => parsed.date = Str(Date_2025_08_01)
            /\ Text = Line_Date15Sep67 => parsed.date = Str(Date_2024_09_15)

\* C8 witness: '1d ส.ค. 68' parsed to 2025-08-01
C8_Witness ==
    /\ parsed # NotRun
    /\ Text = Line_Date1Aug68
    /\ parsed.date = Str(Date_2025_08_01)

\* C9: with no Thai month marker, a numeric date D/M/YYYY whose 4-digit year
\* is greater than 2500 is returned with the year YYYY - 543: '01/08/2568'
\* gives 2025-08-01.  ReceiptParser._extract_date returns 2568-08-01.
C9_NumericDateBuddhistYear ==
    (parsed # NotRun /\ ~SomeMonthMatches(Text)
        /\ Search(NumericDatePattern, Text, 1).ok) =>
        LET m    == Search(NumericDatePattern, Text, 1)
            year == Group(Text, m, 3)
        IN  /\ (Len(year) = 4 /\ DigitsToInt(year) > 2500) =>
                  /\ parsed.date # None
                  /\ SubSeq(parsed.date.str, 1, 4) = IntToStr(DigitsToInt(year) - 543)
            /\ Text = Line_Date01082568 => parsed.date = Str(Date_2025_08_01)

\* a text of the form YYYY-MM-DD
IsYMD(s) ==
    /\ Len(s) = 10
    /\ \A i \in {1, 2, 3, 4, 6, 7, 9, 10} : s[i] \in Digits
    /\ s[5] = "-" /\ s[8] = "-"

\* C10: the date of either record is absent or a well-formed YYYY-MM-DD text.
\* ReceiptParser._extract_date returns 256-08-01 for '1 ส.ค. 256', and
\* OCRService._extract_date returns '15 ก.ย. 67' for '15 ก.ย. 67'.
C10_DateWellFormed ==
    /\ parsed # NotRun => (parsed.date = None \/ IsYMD(parsed.date.str))
    /\ ocr # NotRun => (ocr.date = None \/ IsYMD(ocr.date.str))

\* C11: normalization is idempotent: once the normalizer has been applied
\* to a text s, the text is normalize(s) however many more times it is
\* applied, so normalize(normalize(s)) = normalize(s).
C11_NormalizeIdempotent ==
    norm.passes >= 1 => norm.text = Normalize(norm.s)

\* the normalizer applied twice to a text that it rewrites (an 'O' or 'l'
\* becomes a digit) and shortens (a ',' ' ' '฿' or 'B' is removed)
C11_Witness ==
    /\ norm.passes = 2
    /\ Len(norm.s) = MaxLen
    /\ Len(norm.text) < Len(norm.s)
    /\ \E i \in 1..Len(norm.s) : norm.s[i] \in {"O", "o", "l", "I", "|"}
    /\ norm.text # <<>>

SuccessKeys ==
    {"success", "amount", "bank", "date", "raw_text", "all_numbers", "confidence"}

\* r is a complete success or an outright failure, never a partial record
CompleteOrFailed(r) ==
    /\ "success" \in DOMAIN r
    /\ \/ r.success /\ DOMAIN r = SuccessKeys
       \/ /\ ~r.success
          /\ "error" \in DOMAIN r
          /\ DOMAIN r \cap {"amount", "bank", "date"} = {}

\* the 'no text found' outcome
IsNoTextFound(r) ==
    /\ DOMAIN r = {"success", "error", "raw_text", "all_numbers"}
    /\ ~r.success
    /\ r.error = "No text found in image"
    /\ r.raw_text = <<>>
    /\ r.all_numbers = <<>>

\* C13: process_receipt always returns a record, which is either success
\* with all of amount, bank, date, raw_text, all_numbers and confidence, or
\* a failure with an error message and no amount, bank or date; a missing
\* image file, an exception in preprocessing, OCR or parsing, and an OCR run
\* without detections (the 'no text found' record) are failures, and the
\* record the /scan-receipt handler responds with is of the same kind.
C13_CompleteOrFailed ==
    /\ receipt # NotRun =>
          /\ CompleteOrFailed(receipt)
          /\ ~image.exists => ~receipt.success
          /\ image.fault # "none" => ~receipt.success
          /\ (image.exists /\ image.fault \in {"none", "parse"} /\ dets = <<>>)
                => IsNoTextFound(receipt)
          /\ receipt.success =>
                /\ dets # <<>>
                /\ receipt.raw_text = AllText(dets)
    /\ scan.body # NotRun =>
          /\ CompleteOrFailed(scan.body)
          /\ scan.body.success <=> (image.fault = "none" /\ dets # <<>>)

\* process_receipt has reported an OCR run without detections
C13_Witness ==
    /\ receipt # NotRun
    /\ image.exists /\ image.fault = "none" /\ dets = <<>>
    /\ IsNoTextFound(receipt)

\* a value immediately preceded by the label, as pattern 1 writes it
LabelledValue(label) == <<Lit(label)>> \o Separator \o OcrNumberGroup

\* a value immediately followed by the currency marker, as pattern 2 writes it
MarkedValue(marker) == OcrNumberGroup \o <<Rep("space", 0, -1), Lit(marker)>>

\* 'Amount: 100 THB'
Line_Amount100THB == T_Amount \o <<":"," ","1","0","0"," ">> \o T_THB

\* C14: when the text holds a value preceded by one of the labels of
\* pattern 1 (จำนวน ยอด Amount Total รวม โอน), pattern 1 matches the
\* normalized text, and when it holds a value followed by one of the
\* currency markers of pattern 2 (บาท THB ฿), pattern 2 matches the
\* normalized text; so the amount of 'Amount: 100 THB' is 100.
\* OCRService._extract_amount normalizes 'Amount: 100 THB' to 'Am0unt:100TH',
\* which no pattern matches: it returns None.
C14_LabelsAndMarkersSurviveNormalization ==
    ocr # NotRun =>
        /\ \A label \in {T_jamnuan, T_yot, T_Amount, T_Total, T_ruam, T_oon} :
              Search(LabelledValue(label), Text, 1).ok
                  => Search(OcrAmountPatterns[1], Normalize(Text), 1).ok
        /\ \A marker \in {T_baht, T_THB, T_bahtsign} :
              Search(MarkedValue(marker), Text, 1).ok
                  => Search(OcrAmountPatterns[2], Normalize(Text), 1).ok
        /\ Text = Line_Amount100THB => ocr.amount = Hundred

\* C15: when the /scan-receipt handler has completed, the temp file it wrote
\* the upload to no longer exists, whether the OCR succeeded, reported a
\* failure, or an exception was turned into HTTP 500, unless the delete
\* itself failed; a request rejected with 503 or 400 never created one.
C15_TempFileRemoved ==
    scan.pc = "done" =>
        /\ (scan.written /\ ~scan.unlink_failed) => ~scan.temp
        /\ scan.status \in {503, 400} => (~scan.created /\ ~scan.temp)
        /\ scan.status \in {200, 500} => (scan.temp <=> scan.unlink_failed)

\* the handler has completed with HTTP 500 after the upload was written, and
\* the temp file is gone
C15_Witness ==
    /\ scan.pc = "done"
    /\ scan.written /\ scan.created
    /\ scan.status = 500
    /\ ~scan.temp

\* the handler has completed with the failure record of process_receipt
\* as its response, and the temp file is gone
C15_WitnessReportedFailure ==
    /\ scan.pc = "done"
    /\ scan.written
    /\ scan.status = 200 /\ ~scan.body.success
    /\ ~scan.temp

\* the keywords of the catalog entry i, in lower case
KeywordsOf(i) ==
    {Lower(TRANSACTION_TYPES[i].keywords[k]) :
        k \in 1..Len(TRANSACTION_TYPES[i].keywords)}

\* C16: the catalog is ordered most specific first: a keyword found in the
\* text contains no keyword of an earlier entry, and a text that is a
\* keyword of an entry is classified as that entry.
\* The keyword 'bill payment' of bill_payment contains the keyword 'payment'
\* of the earlier entry payment: _detect_transaction_type('Bill Payment')
\* returns payment.
C16_MostSpecificFirst ==
    parsed # NotRun =>
        \A j \in 1..Len(TRANSACTION_TYPES) : \A later \in KeywordsOf(j) :
            Contains(Lower(Text), later) =>
                /\ \A i \in 1..(j - 1) : \A earlier \in KeywordsOf(i) :
                       ~Contains(later, earlier)
                /\ Lower(Text) = later
                       => parsed.transaction_type = TRANSACTION_TYPES[j].code

====
